---- MODULE Spec2Model ----
(***************************************************************************)
(* Model of jobstats.py: the sacct row pipeline (parse_sacct and its field *)
(* parsers parse_timedelta and parse_mem) and the efficiency columns       *)
(* computed by the main block.                                             *)
(*                                                                         *)
(* Representation.  A Python str that the code inspects (substring tests,  *)
(* split, strip, int) is a sequence of one-character strings; a str that   *)
(* is only compared or handed to pandas is a TLA+ string.  A number that   *)
(* the code holds as a float is an exact reduced fraction [n, d]; d = 0    *)
(* encodes the IEEE results nan (n = 0) and inf (n = 1).                   *)
(***************************************************************************)
EXTENDS Integers, Sequences, FiniteSets, TLC

VARIABLES
    results,   \* the rows call_sacct returned, each as its split("|")
    i,         \* position of the for loop of parse_sacct in results
    jobs,      \* the dict jobs: key -> entry (field name -> value)
    jobOrder,  \* the keys of jobs in insertion order
    pc,        \* "loop", "exit1" (exit(1)), "raised" (uncaught exception),
               \* "returned" (parse_sacct returned), "done" (columns added)
    exc,       \* the exception that ended the run, or "none"
    df         \* the DataFrame: its columns and its rows

vars == <<results, i, jobs, jobOrder, pc, exc, df>>

(* ---------------------------------------------------------------------- *)
(* Bounds                                                                  *)
(* ---------------------------------------------------------------------- *)
MaxRows == 3
MaxLen == 4

(* ---------------------------------------------------------------------- *)
(* Python str operations on character sequences                            *)
(* ---------------------------------------------------------------------- *)
Digits == <<"0", "1", "2", "3", "4", "5", "6", "7", "8", "9">>

IsDigit(c) == \E k \in 1..10 : Digits[k] = c

DigitVal(c) == (CHOOSE k \in 1..10 : Digits[k] = c) - 1

IsDigits(s) == Len(s) > 0 /\ \A k \in 1..Len(s) : IsDigit(s[k])

RECURSIVE ToInt(_)
ToInt(s) ==
    IF Len(s) = 0 THEN 0
    ELSE 10 * ToInt(SubSeq(s, 1, Len(s) - 1)) + DigitVal(s[Len(s)])

\* int(s): the inputs considered carry no sign, blanks or underscores
PyInt(s) ==
    IF IsDigits(s) THEN [exc |-> "none", val |-> ToInt(s)]
    ELSE [exc |-> "ValueError", val |-> 0]

\* sub in s
Contains(s, sub) ==
    \E k \in 0..(Len(s) - Len(sub)) : SubSeq(s, k + 1, k + Len(sub)) = sub

\* s.split(c), c a single character
RECURSIVE Split(_, _)
Split(s, c) ==
    IF \A k \in 1..Len(s) : s[k] # c THEN <<s>>
    ELSE LET p == CHOOSE k \in 1..Len(s) :
                      s[k] = c /\ \A m \in 1..(k - 1) : s[m] # c
         IN <<SubSeq(s, 1, p - 1)>> \o Split(SubSeq(s, p + 1, Len(s)), c)

\* s.strip(c)
RECURSIVE Strip(_, _)
Strip(s, c) ==
    IF Len(s) > 0 /\ s[1] = c THEN Strip(Tail(s), c)
    ELSE IF Len(s) > 0 /\ s[Len(s)] = c THEN Strip(SubSeq(s, 1, Len(s) - 1), c)
    ELSE s

(* ---------------------------------------------------------------------- *)
(* Floats as exact fractions                                               *)
(* ---------------------------------------------------------------------- *)
RECURSIVE GCD(_, _)
GCD(a, b) == IF b = 0 THEN a ELSE GCD(b, a % b)

NaN == [n |-> 0, d |-> 0]
Inf == [n |-> 1, d |-> 0]

Reduce(a, b, g) == [n |-> a \div g, d |-> b \div g]

Rat(a, b) == Reduce(a, b, GCD(a, b))

IntRat(a) == [n |-> a, d |-> 1]

IsNaN(x) == x.d = 0 /\ x.n = 0

IsFinite(x) == x.d > 0

\* x / y on float columns: a zero divisor gives inf or nan, never an error
RatDiv(x, y) ==
    IF IsNaN(x) \/ IsNaN(y) THEN NaN
    ELSE IF y.n = 0 THEN (IF x.n = 0 THEN NaN ELSE Inf)
    ELSE Rat(x.n * y.d, x.d * y.n)

RatMulInt(k, x) == IF IsNaN(x) THEN NaN ELSE Rat(k * x.n, x.d)

RatAdd(x, y) ==
    IF IsNaN(x) \/ IsNaN(y) THEN NaN
    ELSE Rat(x.n * y.d + y.n * x.d, x.d * y.d)

(* ---------------------------------------------------------------------- *)
(* Field parsers                                                           *)
(* ---------------------------------------------------------------------- *)
Ok(v) == [exc |-> "none", val |-> v]

Raise(e) == [exc |-> e, val |-> NaN]

\* HH:MM:SS already split at the colons
ClockSeconds(p) ==
    IF Len(p) = 3 /\ \A k \in 1..3 : IsDigits(p[k])
    THEN Ok(IntRat(ToInt(p[1]) * 3600 + ToInt(p[2]) * 60 + ToInt(p[3])))
    ELSE Raise("ValueError")

\* pd.to_timedelta(s) for the clock form the accounting tool prints,
\* HH:MM:SS; the empty string parses to NaT.  Result in seconds.
PdToTimedelta(s) ==
    IF s = <<>> THEN Ok(NaN) ELSE ClockSeconds(Split(s, ":"))

\* right-pad the %f digits to microseconds
RECURSIVE PadMicro(_)
PadMicro(f) == IF Len(f) >= 6 THEN f ELSE PadMicro(Append(f, "0"))

\* %M:%S and %f matched against the two sides of the dot
MinSecMicro(ms, f) ==
    IF /\ Len(ms) = 2
       /\ IsDigits(ms[1]) /\ Len(ms[1]) <= 2 /\ ToInt(ms[1]) <= 59
       /\ IsDigits(ms[2]) /\ Len(ms[2]) <= 2 /\ ToInt(ms[2]) <= 59
       /\ IsDigits(f) /\ Len(f) <= 6
    THEN Ok(RatAdd(IntRat(ToInt(ms[1]) * 60 + ToInt(ms[2])),
                   Rat(ToInt(PadMicro(f)), 1000000)))
    ELSE Raise("ValueError")

AtDot(dot) ==
    IF Len(dot) # 2 THEN Raise("ValueError")
    ELSE MinSecMicro(Split(dot[1], ":"), dot[2])

\* datetime.strptime(s, "%M:%S.%f") turned into a timedelta of its
\* minute, second and microsecond
Strptime(s) == AtDot(Split(s, "."))

\* pd.to_timedelta(rest) + datetime.timedelta(days=int(days))
AddDays(rest, days) ==
    IF rest.exc # "none" THEN Raise(rest.exc)
    ELSE IF days.exc # "none" THEN Raise(days.exc)
    ELSE Ok(RatAdd(rest.val, IntRat(days.val * 86400)))

\* days, rest = timestring.split("-")
DayForm(parts) ==
    IF Len(parts) # 2 THEN Raise("ValueError")
    ELSE AddDays(PdToTimedelta(parts[2]), PyInt(parts[1]))

parse_timedelta(timestring) ==
    IF Contains(timestring, <<"-">>) THEN DayForm(Split(timestring, "-"))
    ELSE IF Contains(timestring, <<".">>) THEN Strptime(timestring)
    ELSE PdToTimedelta(timestring)

\* requested_GB from the integer read before the unit: times the CPUs for
\* Gc (num = AllocCPUS), as it is for Gn, over 1024 for Mn
Scaled(r, num, den) ==
    IF r.exc # "none" THEN Raise(r.exc) ELSE Ok(Rat(num * r.val, den))

\* the ReqMem half of parse_mem: requested memory of the whole job in GB
RequestedGB(reqmem, alloccpus) ==
    IF Contains(reqmem, <<"G", "c">>)
    THEN Scaled(PyInt(Split(reqmem, "G")[1]), alloccpus, 1)
    ELSE IF Contains(reqmem, <<"G", "n">>)
    THEN Scaled(PyInt(Split(reqmem, "G")[1]), 1, 1)
    ELSE IF Contains(reqmem, <<"M", "n">>)
    THEN Scaled(PyInt(Split(reqmem, "M")[1]), 1, 1024)
    ELSE Raise("UnboundLocalError")

KBtoGB(r) == IF r.exc = "none" THEN Rat(r.val, 1024 * 1024) ELSE IntRat(0)

\* the MaxRSS half of parse_mem: kilobytes to GB, 0 when not a number
MaxRssGB(maxrss) == KBtoGB(PyInt(Strip(maxrss, "K")))

StoreMem(job, req) ==
    IF req.exc # "none" THEN [exc |-> req.exc, job |-> job]
    ELSE [exc |-> "none",
          job |-> [job EXCEPT !["ReqMem"] = req.val,
                              !["MaxRSS"] = MaxRssGB(job["MaxRSS"])]]

parse_mem(job) == StoreMem(job, RequestedGB(job["ReqMem"], job["AllocCPUS"]))

\* pd.to_datetime(s): the empty string is NaT, a timestamp literal is
\* itself, anything else is rejected
Timestamps == {"2023-01-01T00:00:00", "2023-01-01T00:20:00"}

NaT == "NaT"

ToDatetime(s) ==
    IF s = "" THEN [exc |-> "none", val |-> NaT]
    ELSE IF s \in Timestamps THEN [exc |-> "none", val |-> s]
    ELSE [exc |-> "ValueError", val |-> NaT]

(* ---------------------------------------------------------------------- *)
(* parse_sacct: one row                                                    *)
(* ---------------------------------------------------------------------- *)
SACCT_FORMAT ==
    <<"Jobid", "Partition", "AllocCPUS", "TotalCPU", "ReqMem", "MaxRSS",
      "Start", "End", "Elapsed", "State", "Jobname">>

Min(a, b) == IF a < b THEN a ELSE b

ZipTo(row, m) ==
    [f \in {SACCT_FORMAT[k] : k \in 1..m} |->
        row[CHOOSE k \in 1..m : SACCT_FORMAT[k] = f]]

\* dict(zip(SACCT_FORMAT.split(","), row.split("|"))); a row is given as
\* the list its split yields, and zip stops at the shorter of the two
ZipRow(row) == ZipTo(row, Min(Len(SACCT_FORMAT), Len(row)))

\* a filter that lets every state but RUNNING through
NotCompletedOnlyRunning(job) == job["State"] = "RUNNING"

\* not job["State"] == "COMPLETED"
NotCompleted(job) == job["State"] # "COMPLETED"

Failed(e) == [exc |-> e, job |-> <<>>]

\* lines 61-66, one conversion each, in the order the code runs them; the
\* first one to raise ends the run
SetElapsed(job, el) ==
    IF el.exc # "none" THEN Failed(el.exc)
    ELSE [exc |-> "none", job |-> [job EXCEPT !["Elapsed"] = el.val]]

SetEnd(job, en) ==
    IF en.exc # "none" THEN Failed(en.exc)
    ELSE SetElapsed([job EXCEPT !["End"] = en.val],
                    parse_timedelta(job["Elapsed"]))

SetStart(job, st) ==
    IF st.exc # "none" THEN Failed(st.exc)
    ELSE SetEnd([job EXCEPT !["Start"] = st.val], ToDatetime(job["End"]))

SetMem(mem) ==
    IF mem.exc # "none" THEN Failed(mem.exc)
    ELSE SetStart(mem.job, ToDatetime(mem.job["Start"]))

SetTotalCPU(job, tcpu) ==
    IF tcpu.exc # "none" THEN Failed(tcpu.exc)
    ELSE SetMem(parse_mem([job EXCEPT !["TotalCPU"] = tcpu.val]))

SetAllocCPUS(job, cpus) ==
    IF cpus.exc # "none" THEN Failed(cpus.exc)
    ELSE SetTotalCPU([job EXCEPT !["AllocCPUS"] = cpus.val],
                     parse_timedelta(job["TotalCPU"]))

Normalize(job) == SetAllocCPUS(job, PyInt(job["AllocCPUS"]))

DotBatch == <<".", "b", "a", "t", "c", "h">>

\* the dict jobs with key k bound to entry e
Bind(js, k, e) ==
    [x \in (DOMAIN js) \cup {k} |-> IF x = k THEN e ELSE js[x]]

\* insertion order of the dict's keys
Touch(ord, k) ==
    IF \E n \in 1..Len(ord) : ord[n] = k THEN ord ELSE Append(ord, k)

\* the entry old with its MaxRSS set
WithMaxRSS(old, v) ==
    [f \in (DOMAIN old) \cup {"MaxRSS"} |-> IF f = "MaxRSS" THEN v ELSE old[f]]

\* a store of the whole sub-step row under the base key
SubStepStoreAll(js, key, job) == Bind(js, key, [job EXCEPT !["Jobid"] = key])

\* jobs[key]["MaxRSS"] = job["MaxRSS"] on a defaultdict(dict)
SubStepStore(js, key, job) ==
    Bind(js, key,
         WithMaxRSS(IF key \in DOMAIN js THEN js[key] ELSE <<>>, job["MaxRSS"]))

\* jobs[job["Jobid"]] = job
TopLevelStore(js, job) == Bind(js, job["Jobid"], job)

Outcome(e, js, ord) == [exc |-> e, jobs |-> js, order |-> ord]

\* lines 71-73
SubStep(js, ord, key, job) ==
    Outcome("none", SubStepStore(js, key, job), Touch(ord, key))

\* lines 68-75
Merge(js, ord, nz) ==
    IF nz.exc # "none" THEN Outcome(nz.exc, js, ord)
    ELSE IF Contains(nz.job["Jobid"], DotBatch)
    THEN SubStep(js, ord, Split(nz.job["Jobid"], ".")[1], nz.job)
    ELSE Outcome("none", TopLevelStore(js, nz.job), Touch(ord, nz.job["Jobid"]))

\* lines 57-60, then the rest of the loop body
Classify(js, ord, job) ==
    IF job["Jobid"] = <<>> THEN Outcome("none", js, ord)
    ELSE IF "State" \notin DOMAIN job THEN Outcome("KeyError", js, ord)
    ELSE IF NotCompleted(job) THEN Outcome("none", js, ord)
    ELSE Merge(js, ord, Normalize(job))

\* the body of the for loop, lines 56-75
LoopBody(js, ord, row) == Classify(js, ord, ZipRow(row))

(* ---------------------------------------------------------------------- *)
(* parse_sacct: the table                                                  *)
(* ---------------------------------------------------------------------- *)
FloatColumns == {"TotalCPU", "ReqMem", "MaxRSS", "Elapsed"}

\* a cell pandas counts as missing: an absent key, NaN or NaT
IsNull(rec, col) ==
    \/ col \notin DOMAIN rec
    \/ col \in FloatColumns /\ IsNaN(rec[col])
    \/ col \in {"Start", "End"} /\ rec[col] = NaT

\* the columns of pd.DataFrame(jobs.values()): the union of the keys
Columns(js) == UNION {DOMAIN js[k] : k \in DOMAIN js}

\* df.dropna(inplace=True): a row with a missing cell goes
RECURSIVE DropNa(_, _)
DropNa(cols, rows) ==
    IF rows = <<>> THEN <<>>
    ELSE (IF \A c \in cols : ~IsNull(Head(rows), c)
          THEN <<Head(rows)>> ELSE <<>>) \o DropNa(cols, Tail(rows))

Frame(cols, rows) == [cols |-> cols, rows |-> DropNa(cols, rows)]

\* lines 81-83
DataFrame(js, ord) ==
    Frame(Columns(js), [n \in 1..Len(ord) |-> js[ord[n]]])

NoFrame == [cols |-> {}, rows |-> <<>>]

(* ---------------------------------------------------------------------- *)
(* __main__: the efficiency columns                                        *)
(* ---------------------------------------------------------------------- *)
MetricInputs == {"TotalCPU", "AllocCPUS", "Elapsed", "MaxRSS", "ReqMem"}

CpuEfficiency(rec) ==
    RatDiv(rec["TotalCPU"], RatMulInt(rec["AllocCPUS"], rec["Elapsed"]))

MemEfficiency(rec) == RatDiv(rec["MaxRSS"], rec["ReqMem"])

WithMetrics(rec) ==
    [f \in (DOMAIN rec) \cup {"CPU_Efficiency", "MEM_Efficiency"} |->
        IF f = "CPU_Efficiency" THEN CpuEfficiency(rec)
        ELSE IF f = "MEM_Efficiency" THEN MemEfficiency(rec)
        ELSE rec[f]]

(* ---------------------------------------------------------------------- *)
(* Input rows                                                              *)
(* ---------------------------------------------------------------------- *)
J100 == <<"1", "0", "0">>
J200 == <<"2", "0", "0">>
DotExtern == <<".", "e", "x", "t", "e", "r", "n">>

T000000 == <<"0", "0", ":", "0", "0", ":", "0", "0">>
T000900 == <<"0", "0", ":", "0", "9", ":", "0", "0">>
T001000 == <<"0", "0", ":", "1", "0", ":", "0", "0">>
T002000 == <<"0", "0", ":", "2", "0", ":", "0", "0">>
TFraction == <<"0", "0", ":", "0", "1", ".", "5", "0", "0", "0", "0", "0">>
TDays == <<"1", "-", "0", "0", ":", "2", "0", ":", "0", "0">>

M4Gn == <<"4", "G", "n">>
M8Gn == <<"8", "G", "n">>
M4Gc == <<"4", "G", "c">>
M0Gn == <<"0", "G", "n">>
M4G == <<"4", "G">>
M2048Mn == <<"2", "0", "4", "8", "M", "n">>

K2097152 == <<"2", "0", "9", "7", "1", "5", "2", "K">>
K1048576 == <<"1", "0", "4", "8", "5", "7", "6", "K">>

TS1 == "2023-01-01T00:00:00"
TS2 == "2023-01-01T00:20:00"

Top100 ==
    <<J100, "core", <<"2">>, T001000, M4Gn, <<>>, TS1, TS2, T002000,
      "COMPLETED", "run1">>
Top200 ==
    <<J200, "long", <<"4">>, TFraction, M2048Mn, <<>>, TS1, TS2, TDays,
      "COMPLETED", "run2">>
Sub100 ==
    <<J100 \o DotBatch, "", <<"1">>, T000900, M8Gn, K2097152, TS2, TS2,
      T001000, "COMPLETED", "batch">>
Sub200 ==
    <<J200 \o DotBatch, "", <<"1">>, T000900, M4Gc, K1048576, TS2, TS2,
      T001000, "COMPLETED", "batch">>
BlankSub100 ==
    <<J100 \o DotBatch, "", <<>>, <<>>, <<>>, K2097152, "", "", <<>>,
      "COMPLETED", "">>
Failed100 ==
    <<J100, "core", <<"2">>, T001000, M8Gn, K1048576, TS1, TS2, T002000,
      "FAILED", "run1">>
RunningSub100 ==
    <<J100 \o DotBatch, "", <<"1">>, T000900, M8Gn, K1048576, TS2, TS2,
      T001000, "RUNNING", "batch">>
EmptyLine == << <<>> >>
JobidOnly == << J200 >>
ZeroElapsed100 ==
    <<J100, "core", <<"2">>, T001000, M4Gn, <<>>, TS1, TS1, T000000,
      "COMPLETED", "run1">>
ZeroReq200 ==
    <<J200, "long", <<"4">>, T001000, M0Gn, <<>>, TS1, TS2, T002000,
      "COMPLETED", "run2">>
BadMem200 ==
    <<J200, "long", <<"4">>, T001000, M4G, <<>>, TS1, TS2, T002000,
      "COMPLETED", "run2">>
BadTime200 ==
    <<J200, "long", <<"4">>, <<"x">>, M4Gn, <<>>, TS1, TS2, T002000,
      "COMPLETED", "run2">>
NoStart100 ==
    <<J100, "core", <<"2">>, T001000, M4Gn, <<>>, "", TS2, T002000,
      "COMPLETED", "run1">>
Extern100 ==
    <<J100 \o DotExtern, "", <<"2">>, T000000, M4Gn, <<>>, TS1, TS2, T002000,
      "COMPLETED", "extern">>

RawRows ==
    {Top100, Top200, Sub100, Sub200, BlankSub100, Failed100, RunningSub100,
     EmptyLine, JobidOnly, ZeroElapsed100, ZeroReq200, BadMem200, BadTime200,
     NoStart100, Extern100}

SeqsUpTo(S, n) == UNION {[1..m -> S] : m \in 0..n}

(* ---------------------------------------------------------------------- *)
(* The run                                                                 *)
(* ---------------------------------------------------------------------- *)
Start(rows) ==
    /\ results = rows
    /\ i = 1
    /\ jobs = <<>>
    /\ jobOrder = <<>>
    /\ pc = "loop"
    /\ exc = "none"
    /\ df = NoFrame

Init == \E rows \in SeqsUpTo(RawRows, MaxRows) : Start(rows)

\* the loop moves on, or an exception nobody catches ends the program
Advance(o) ==
    IF o.exc = "none"
    THEN /\ jobs' = o.jobs
         /\ jobOrder' = o.order
         /\ i' = i + 1
         /\ UNCHANGED <<pc, exc>>
    ELSE /\ pc' = "raised"
         /\ exc' = o.exc
         /\ UNCHANGED <<jobs, jobOrder, i>>

\* one turn of the for loop of parse_sacct
LoopIter ==
    /\ pc = "loop"
    /\ i <= Len(results)
    /\ Advance(LoopBody(jobs, jobOrder, results[i]))
    /\ UNCHANGED <<results, df>>

\* lines 77-85: the empty check, then the DataFrame and dropna
Finish(js, ord) ==
    IF Cardinality(DOMAIN js) < 1 THEN [pc |-> "exit1", df |-> NoFrame]
    ELSE [pc |-> "returned", df |-> DataFrame(js, ord)]

Leave(r) == pc' = r.pc /\ df' = r.df

\* after the loop: exit(1) or the table is returned
BuildTable ==
    /\ pc = "loop"
    /\ i > Len(results)
    /\ Leave(Finish(jobs, jobOrder))
    /\ UNCHANGED <<results, i, jobs, jobOrder, exc>>

\* the two derived columns; a column the frame lacks is a KeyError
Metrics ==
    /\ pc = "returned"
    /\ IF MetricInputs \subseteq df.cols
       THEN /\ df' = [cols |-> df.cols \cup {"CPU_Efficiency", "MEM_Efficiency"},
                      rows |-> [n \in 1..Len(df.rows) |-> WithMetrics(df.rows[n])]]
            /\ pc' = "done"
            /\ exc' = exc
       ELSE /\ pc' = "raised"
            /\ exc' = "KeyError"
            /\ df' = df
    /\ UNCHANGED <<results, i, jobs, jobOrder>>

Next == LoopIter \/ BuildTable \/ Metrics

Spec == Init /\ [][Next]_vars

(* ---------------------------------------------------------------------- *)
(* The memory-request parser on its own: one completed top-level row whose *)
(* ReqMem ranges over every short string of an alphabet that can spell the *)
(* three encodings and their neighbours                                    *)
(* ---------------------------------------------------------------------- *)
MemAlphabet == {"4", "G", "M", "c", "n"}

ReqMemInputs == SeqsUpTo(MemAlphabet, MaxLen) \cup {M2048Mn, M8Gn, M0Gn}

MemRow(req, cpus) ==
    <<J100, "core", cpus, T001000, req, K1048576, TS1, TS2, T002000,
      "COMPLETED", "run1">>

InitMem ==
    \E req \in ReqMemInputs : \E cpus \in {<<"1">>, <<"2">>, <<"4">>} :
        Start(<<MemRow(req, cpus)>>)

SpecMem == InitMem /\ [][Next]_vars

(* ---------------------------------------------------------------------- *)
(* parse_sacct as a function of its rows                                   *)
(* ---------------------------------------------------------------------- *)
RECURSIVE RunLoop(_, _, _, _)
Continue(o, rows, k) ==
    IF o.exc # "none" THEN o ELSE RunLoop(o.jobs, o.order, rows, k + 1)

RunLoop(js, ord, rows, k) ==
    IF k > Len(rows) THEN Outcome("none", js, ord)
    ELSE Continue(LoopBody(js, ord, rows[k]), rows, k)

Returned(o) ==
    IF o.exc # "none" THEN [pc |-> "raised", df |-> NoFrame]
    ELSE Finish(o.jobs, o.order)

ParseSacct(rows) == Returned(RunLoop(<<>>, <<>>, rows, 1))

(* ---------------------------------------------------------------------- *)
(* Vocabulary of the properties                                            *)
(* ---------------------------------------------------------------------- *)
HasState(row) == Len(row) >= 10

IsCompleted(row) == row[1] # <<>> /\ HasState(row) /\ row[10] = "COMPLETED"

IsBatchRow(row) == Contains(row[1], DotBatch)

IsStepRow(row) == Contains(row[1], <<".">>)

BaseId(id) == Split(id, ".")[1]

Parsed(row) == Normalize(ZipRow(row))

Parses(row) == Parsed(row).exc = "none"

AllFields == {SACCT_FORMAT[k] : k \in 1..Len(SACCT_FORMAT)}

IsCompleteRecord(rec) ==
    DOMAIN rec = AllFields /\ \A c \in AllFields : ~IsNull(rec, c)

\* a completed row the parsers accept
GoodRow(row) == IsCompleted(row) /\ Len(row) = 11 /\ Parses(row)

\* a completed top-level row that parses to a record with no missing cell
GoodTop(row) ==
    GoodRow(row) /\ ~IsStepRow(row) /\ IsCompleteRecord(Parsed(row).job)

TableRows == {df.rows[n] : n \in 1..Len(df.rows)}

Processing == pc = "loop" /\ i <= Len(results)

(* ---------------------------------------------------------------------- *)
(* Properties                                                              *)
(* ---------------------------------------------------------------------- *)

\* C1: the merge does not depend on the order of a job's two rows.  When
\* the input is a completed J.batch row followed by a completed top-level
\* row for J with an empty MaxRSS, the returned table is the one the
\* opposite order returns, and J's MaxRSS is the sub-step's value: the
\* top-level row does not replace the stored peak memory.
C1_MergeIsOrderIndependent ==
    ( /\ pc = "returned"
      /\ Len(results) = 2
      /\ GoodRow(results[1]) /\ IsBatchRow(results[1])
      /\ GoodRow(results[2]) /\ ~IsStepRow(results[2])
      /\ results[2][1] = BaseId(results[1][1])
      /\ results[2][6] = <<>> )
    => /\ df = ParseSacct(<<results[2], results[1]>>).df
       /\ \A n \in 1..Len(df.rows) :
              df.rows[n]["MaxRSS"] = MaxRssGB(results[1][6])

\* C2: a row whose State is not "COMPLETED" creates no entry in the job
\* mapping and changes no field of an existing entry, top-level row or
\* sub-step row alike.
C2_NotCompletedLeavesJobsAlone ==
    [][ ( /\ Processing
          /\ results[i][1] # <<>>
          /\ HasState(results[i])
          /\ results[i][10] # "COMPLETED" )
        => (jobs' = jobs /\ jobOrder' = jobOrder /\ pc' = "loop") ]_vars

\* C2 witness: a RUNNING sub-step row of job 100 and a FAILED top-level row
\* of job 100 have been consumed after the job's completed row, whose
\* entry stands as parsed.
C2_Witness ==
    /\ results = <<Top100, RunningSub100, Failed100>>
    /\ i = 4
    /\ pc = "loop"
    /\ DOMAIN jobs = {J100}
    /\ jobs[J100] = Parsed(Top100).job

\* C3: whenever no complete record remains, the run ends with the "no jobs
\* found" error: a table that is returned, and written out, has a row.
C3_EmptyTableIsAnError ==
    pc \in {"returned", "done"} => Len(df.rows) > 0

IsBlankStep(row) ==
    /\ Len(row) = 11
    /\ IsBatchRow(row)
    /\ row[10] = "COMPLETED"
    /\ row[2] = "" /\ row[7] = "" /\ row[8] = "" /\ row[11] = ""
    /\ row[3] = <<>> /\ row[4] = <<>> /\ row[5] = <<>> /\ row[9] = <<>>

Only(rec, top, rss) ==
    /\ rec["Jobid"] = top["Jobid"]
    /\ rec["MaxRSS"] = rss
    /\ rec["CPU_Efficiency"] =
           RatDiv(top["TotalCPU"], RatMulInt(top["AllocCPUS"], top["Elapsed"]))
    /\ rec["MEM_Efficiency"] = RatDiv(rss, top["ReqMem"])

\* C4: a completed top-level row for J followed by a completed J.batch row
\* whose other fields are blank is processed without error, and the table
\* holds one row for J with the sub-step's MaxRSS in GB and the two
\* efficiencies computed from the top-level row (2, 1/4 and 1/2 for the
\* 100 / 100.batch rows).
C4_BlankSubStepIsMerged ==
    ( /\ Len(results) = 2
      /\ GoodTop(results[1])
      /\ IsBlankStep(results[2])
      /\ BaseId(results[2][1]) = results[1][1] )
    => /\ pc # "raised"
       /\ pc = "done" =>
             /\ Len(df.rows) = 1
             /\ Only(df.rows[1], Parsed(results[1]).job, MaxRssGB(results[2][6]))
             /\ results = <<Top100, BlankSub100>> =>
                   /\ df.rows[1]["MaxRSS"] = IntRat(2)
                   /\ df.rows[1]["CPU_Efficiency"] = Rat(1, 4)
                   /\ df.rows[1]["MEM_Efficiency"] = Rat(1, 2)

\* C5: a completed row that a field parser rejects does not end the run:
\* with a well-formed completed top-level row elsewhere in the input, the
\* loop goes past the rejected row, so that job can reach the table.
C5_ParseFailureIsLocal ==
    \A k \in 1..Len(results) :
        ( /\ IsCompleted(results[k]) /\ ~Parses(results[k])
          /\ \E m \in (1..Len(results)) \ {k} : GoodTop(results[m]) )
            => ~(pc = "raised" /\ i = k)

\* C6: in the finished table a ratio whose denominator is zero is never
\* infinite or NaN.
C6_ZeroDenominatorIsMarked ==
    pc = "done" =>
        \A n \in 1..Len(df.rows) :
            /\ df.rows[n]["Elapsed"].n = 0 =>
                  (df.rows[n]["CPU_Efficiency"] # Inf
                      /\ ~IsNaN(df.rows[n]["CPU_Efficiency"]))
            /\ df.rows[n]["ReqMem"].n = 0 =>
                  (df.rows[n]["MEM_Efficiency"] # Inf
                      /\ ~IsNaN(df.rows[n]["MEM_Efficiency"]))

\* C7: every row of the table parse_sacct returns has all eleven fields,
\* none of them missing.
C7_ReturnedRowsAreComplete ==
    pc = "returned" => \A n \in 1..Len(df.rows) : IsCompleteRecord(df.rows[n])

TopJobs ==
    {results[k][1] :
        k \in {m \in 1..Len(results) :
                  IsCompleted(results[m]) /\ ~IsStepRow(results[m])}}

AllTopsGood(J) ==
    \A k \in 1..Len(results) :
        (IsCompleted(results[k]) /\ results[k][1] = J) => GoodTop(results[k])

Describes(rec, J) == "Jobid" \in DOMAIN rec /\ BaseId(rec["Jobid"]) = J

\* C8: the returned table holds exactly one row for each job that has a
\* completed top-level row (each of them parsing to a complete record),
\* whatever step rows of that job the input holds.
C8_OneRowPerJob ==
    pc = "returned" =>
        \A J \in TopJobs :
            AllTopsGood(J) =>
                Cardinality({n \in 1..Len(df.rows) : Describes(df.rows[n], J)}) = 1

Canonical(req, unit) ==
    /\ Len(req) >= 3
    /\ SubSeq(req, Len(req) - 1, Len(req)) = unit
    /\ IsDigits(SubSeq(req, 1, Len(req) - 2))

Amount(req) == ToInt(SubSeq(req, 1, Len(req) - 2))

Stored(v) == i = 2 /\ pc # "raised" /\ jobs[results[1][1]]["ReqMem"] = v

\* C9: once the single completed top-level row is handled, <N>Gc has
\* stored N * AllocCPUS, <N>Gn has stored N, <N>Mn has stored N / 1024
\* (GB), and any other ReqMem has ended the run with an exception and
\* stored nothing.
C9_ParseMem ==
    ( /\ Len(results) = 1
      /\ GoodRow(MemRow(M4Gn, results[1][3]))
      /\ results[1] = MemRow(results[1][5], results[1][3])
      /\ (i = 2 \/ pc = "raised") )
    => IF Canonical(results[1][5], <<"G", "c">>)
       THEN Stored(IntRat(Amount(results[1][5]) * ToInt(results[1][3])))
       ELSE IF Canonical(results[1][5], <<"G", "n">>)
       THEN Stored(IntRat(Amount(results[1][5])))
       ELSE IF Canonical(results[1][5], <<"M", "n">>)
       THEN Stored(Rat(Amount(results[1][5]), 1024))
       ELSE pc = "raised" /\ i = 1

SameBut(new, old, f) ==
    /\ DOMAIN new = (DOMAIN old) \cup {f}
    /\ \A g \in (DOMAIN old) \ {f} : new[g] = old[g]

\* C10: handling a completed J.batch row changes nothing but the MaxRSS
\* field of the entry keyed by J: the entry's other fields and the entries
\* of all other keys stay as they were.
C10_SubStepWritesOnlyMaxRSS ==
    [][ (Processing /\ IsCompleted(results[i]) /\ IsBatchRow(results[i]))
        => /\ DOMAIN jobs' \subseteq (DOMAIN jobs) \cup {BaseId(results[i][1])}
           /\ \A k \in DOMAIN jobs :
                 /\ k \in DOMAIN jobs'
                 /\ IF k = BaseId(results[i][1])
                    THEN SameBut(jobs'[k], jobs[k], "MaxRSS")
                    ELSE jobs'[k] = jobs[k]
           /\ \A k \in (DOMAIN jobs') \ (DOMAIN jobs) :
                 DOMAIN jobs'[k] = {"MaxRSS"} ]_vars

\* C10 witness: 100.batch, carrying its own CPU count, times and ReqMem,
\* has been merged into the entry of job 100 while job 200 has an entry:
\* the peak memory is the sub-step's, the rest is the top-level row's.
C10_Witness ==
    /\ results = <<Top100, Top200, Sub100>>
    /\ i = 4
    /\ pc = "loop"
    /\ jobs[J100]["MaxRSS"] = IntRat(2)
    /\ jobs[J100] = [Parsed(Top100).job EXCEPT !["MaxRSS"] = IntRat(2)]
    /\ jobs[J200] = Parsed(Top200).job

====
